---- MODULE Spec2Model ----
(***************************************************************************)
(* A model of the major-plan script: the top-level script (GET the course *)
(* list, determineMajorPlan, POST the result), the round loop of          *)
(* determineMajorPlan over the insertion-ordered takenCoursesMap, the     *)
(* prerequisite evaluator isPreReqSatisfied / isPrereqValueTaken with the *)
(* short-circuit of Array.every / Array.some and its thrown Error, and    *)
(* getCourseUID as the string concatenation the template literal does.    *)
(***************************************************************************)
EXTENDS Naturals, Sequences, FiniteSets, TLC

VARIABLES
    pc,                  \* position of the top-level script
    input,               \* coursesJSONResponse.courses, the parsed GET response
    coursesAmount,       \* determineMajorPlan: courses.length on entry
    courses,             \* determineMajorPlan: the (reassigned) parameter, as indices into input
    takenCoursesMap,     \* determineMajorPlan: Map<CourseUID, Course>, in insertion order
    solutionIsPossible,  \* determineMajorPlan: the flag of the loop
    plan,                \* the value determineMajorPlan returned
    posted,              \* the bodies handed to post(), in order
    log,                 \* history: the script's events, in order
    roundOf,             \* history: for each input index the round that promoted it (0: none)
    rounds,              \* history: number of loop bodies started
    uid,                 \* getCourseUID applied to a pair of course infos
    ev                   \* isPreReqSatisfied applied to a tree and a set of taken keys

vars == <<pc, input, coursesAmount, courses, takenCoursesMap, solutionIsPossible,
          plan, posted, log, roundOf, rounds, uid, ev>>

-----------------------------------------------------------------------------
(* Bounds of the model.                                                    *)

MaxCourses == 3      \* longest list of distinct courses
MaxWeight == 2       \* most prerequisite values below the roots in one course list
MaxEvalWeight == 3   \* most values below the root of a tree handed to the evaluator on its own
MaxClassId == 20     \* largest classId handed to getCourseUID on its own

-----------------------------------------------------------------------------
(* Strings are sequences of one-character strings, so that the template   *)
(* literal of getCourseUID is a concatenation that can collide.           *)

DigitChars == <<"0", "1", "2", "3", "4", "5", "6", "7", "8", "9">>

RECURSIVE NumberToString(_)
\* String(n) of a non-negative integer, as `${n}` produces it.
NumberToString(n) ==
    IF n < 10 THEN <<DigitChars[n + 1]>>
    ELSE NumberToString(n \div 10) \o <<DigitChars[(n % 10) + 1]>>

CS == <<"C", "S">>
CS1 == <<"C", "S", "1">>

-----------------------------------------------------------------------------
(* courseTypes.ts                                                          *)

AND == "and"
OR == "or"
PreReqType == {AND, OR}

CourseInfo(subject, classId) == [subject |-> subject, classId |-> classId]
PreReq(type, values) == [type |-> type, values |-> values]
Course(info, prereqs) ==
    [subject |-> info.subject, classId |-> info.classId, prereqs |-> prereqs]

-----------------------------------------------------------------------------
(* Helper functions of the script.                                         *)

getCourseUID(course) == course.subject \o NumberToString(course.classId)

isCourseInfo(prereqValue) ==
    "classId" \in DOMAIN prereqValue /\ "subject" \in DOMAIN prereqValue

\* Map.prototype.has on the insertion-ordered list of entries.
MapHas(map, key) == \E i \in 1..Len(map) : map[i].key = key

\* A faulty MapSet: a new key is put in front.
MapSetFront(map, key, value) ==
    IF MapHas(map, key)
    THEN [i \in 1..Len(map) |->
            IF map[i].key = key THEN [key |-> key, value |-> value] ELSE map[i]]
    ELSE <<[key |-> key, value |-> value]>> \o map

\* Map.prototype.set: a present key keeps its position and takes the new value,
\* a new key is appended.
MapSet(map, key, value) ==
    IF MapHas(map, key)
    THEN [i \in 1..Len(map) |->
            IF map[i].key = key THEN [key |-> key, value |-> value] ELSE map[i]]
    ELSE Append(map, [key |-> key, value |-> value])

\* A faulty MapValues: the values in reverse insertion order.
MapValuesReversed(map) == [i \in 1..Len(map) |-> map[Len(map) + 1 - i].value]

\* [...map.values()]
MapValues(map) == [i \in 1..Len(map) |-> map[i].value]

MapKeys(map) == {map[i].key : i \in 1..Len(map)}

isCourseTaken(course, takenKeys) == getCourseUID(course) \in takenKeys

RECURSIVE SomeEmptyTrue(_, _)
\* The evaluator returns "true" or "false", or "throw" when the Error of the
\* last branch of isPreReqSatisfied propagates out of it.
RECURSIVE isPreReqSatisfied(_, _)
RECURSIVE isPrereqValueTaken(_, _)
RECURSIVE Every(_, _)
RECURSIVE Some(_, _)

\* Array.prototype.every(checkPrereqValue): left to right, stops at the first false.
Every(values, takenKeys) ==
    IF values = <<>> THEN "true"
    ELSE LET r == isPrereqValueTaken(Head(values), takenKeys)
         IN  IF r = "true" THEN Every(Tail(values), takenKeys) ELSE r

\* A faulty Some: the empty list gives true, as every does.
SomeEmptyTrue(values, takenKeys) ==
    IF values = <<>> THEN "true"
    ELSE LET r == isPrereqValueTaken(Head(values), takenKeys)
         IN  IF r = "false" /\ Tail(values) # <<>>
             THEN SomeEmptyTrue(Tail(values), takenKeys) ELSE r

\* Array.prototype.some(checkPrereqValue): left to right, stops at the first true.
Some(values, takenKeys) ==
    IF values = <<>> THEN "false"
    ELSE LET r == isPrereqValueTaken(Head(values), takenKeys)
         IN  IF r = "false" THEN Some(Tail(values), takenKeys) ELSE r

isPreReqSatisfied(preReq, takenKeys) ==
    IF preReq.type = AND THEN Every(preReq.values, takenKeys)
    ELSE IF preReq.type = OR THEN Some(preReq.values, takenKeys)
    ELSE "throw"

isPrereqValueTaken(prereqValue, takenKeys) ==
    IF isCourseInfo(prereqValue)
    THEN (IF isCourseTaken(prereqValue, takenKeys) THEN "true" ELSE "false")
    ELSE isPreReqSatisfied(prereqValue, takenKeys)

areAllCoursesTaken(map, amount) == Len(map) = amount

\* A faulty FilterCourses: every course of the round is evaluated against the
\* keys taken before the round.
RECURSIVE FilterCoursesSnapshot(_, _, _, _, _)
FilterCoursesSnapshot(list, cs, map, kept, promoted) ==
    IF cs = <<>>
    THEN [map |-> map, remaining |-> kept, promoted |-> promoted, threw |-> FALSE]
    ELSE LET c == Head(cs)
             before == MapKeys(map) \
                         {getCourseUID(list[promoted[k]]) : k \in 1..Len(promoted)}
             r == isPreReqSatisfied(list[c].prereqs, before)
         IN  IF r = "throw"
             THEN [map |-> map, remaining |-> kept, promoted |-> promoted, threw |-> TRUE]
             ELSE IF r = "true"
             THEN FilterCoursesSnapshot(list, Tail(cs),
                                        MapSet(map, getCourseUID(list[c]), c),
                                        kept, Append(promoted, c))
             ELSE FilterCoursesSnapshot(list, Tail(cs), map, Append(kept, c), promoted)

\* courses.filter(callback) of one round: scans cs (indices into list) in order
\* against the map as it stands, and gives the map, the kept indices, the
\* promoted indices in scan order, and whether the callback threw.
RECURSIVE FilterCourses(_, _, _, _, _)
FilterCourses(list, cs, map, kept, promoted) ==
    IF cs = <<>>
    THEN [map |-> map, remaining |-> kept, promoted |-> promoted, threw |-> FALSE]
    ELSE LET c == Head(cs)
             r == isPreReqSatisfied(list[c].prereqs, MapKeys(map))
         IN  IF r = "throw"
             THEN [map |-> map, remaining |-> kept, promoted |-> promoted, threw |-> TRUE]
             ELSE IF r = "true"
             THEN FilterCourses(list, Tail(cs),
                                MapSet(map, getCourseUID(list[c]), c),
                                kept, Append(promoted, c))
             ELSE FilterCourses(list, Tail(cs), map, Append(kept, c), promoted)

\* A faulty StillPossible: a round that removes nothing still counts.
StillPossibleOrEqual(remaining, cs) == Len(remaining) <= Len(cs)

\* solutionIsPossible = remainingCourses.length < courses.length
StillPossible(remaining, cs) == Len(remaining) < Len(cs)

RoundResult == FilterCourses(input, courses, takenCoursesMap, <<>>, <<>>)

-----------------------------------------------------------------------------
(* The course lists the GET may answer with.                               *)

\* A tag outside PreReqType, as untyped JSON may carry it.
XOR == "xor"
Tags == PreReqType \cup {XOR}

RECURSIVE Values(_, _, _)
RECURSIVE Forests(_, _, _)
\* The prerequisite values that count w values in all (a leaf counts one, a node
\* one more than its list of values), and the lists of values that count w.
Values(tags, leaves, w) ==
    (IF w = 1 THEN leaves ELSE {})
    \cup {PreReq(t, f) : t \in tags, f \in Forests(tags, leaves, w - 1)}
Forests(tags, leaves, w) ==
    IF w = 0 THEN {<<>>}
    ELSE UNION {
        {<<v>> \o f : v \in Values(tags, leaves, j), f \in Forests(tags, leaves, w - j)} :
        j \in 1..w}

\* The prerequisites of a course with w values below the root.
Roots(tags, leaves, w) == {PreReq(t, f) : t \in tags, f \in Forests(tags, leaves, w)}

\* The well-typed prerequisites of a course: every and/or tree.
CoursePreReqs(leaves, w) == Roots(PreReqType, leaves, w)

\* Those whose w values are all leaves.
LeafPreReqs(leaves, w) == {PreReq(t, f) : t \in PreReqType, f \in Forests({}, leaves, w)}

\* The well-typed prerequisites, and the empty node with the unknown tag.
AnyPreReqs(leaves, w) ==
    CoursePreReqs(leaves, w) \cup (IF w = 0 THEN {PreReq(XOR, <<>>)} ELSE {})

\* Lists of distinct courses CS 1, CS 2, ...; a leaf may name any of CS 1 ..
\* CS MaxCourses, in the list or not.
NumberedInfos == {CourseInfo(CS, c) : c \in 1..MaxCourses}
NumberedRoster(n) == [i \in 1..n |-> CourseInfo(CS, i)]

\* Lists in which two entries have the same UID: the same course twice, and the
\* different courses CS 11 and CS1 1. Their prerequisites may be malformed.
AliasInfos == {CourseInfo(CS, 1), CourseInfo(CS, 11), CourseInfo(CS1, 1)}
AliasRosters ==
    { <<CourseInfo(CS, 1), CourseInfo(CS, 1)>>,
      <<CourseInfo(CS, 11), CourseInfo(CS1, 1)>> }

\* The infos of the courses of a list, in order; and the prerequisites a course
\* of the list may have, by their number of values below the root.
Rosters == {NumberedRoster(n) : n \in 0..MaxCourses} \cup AliasRosters
NestedPreReqs == [w \in 0..MaxWeight |-> CoursePreReqs(NumberedInfos, w)]
FlatPreReqs == [w \in 0..MaxWeight |-> LeafPreReqs(NumberedInfos, w)]
AliasPreReqs == [w \in 0..MaxWeight |-> AnyPreReqs(AliasInfos, w)]
\* The longest lists have prerequisites of leaves only.
PreReqsFor(roster) ==
    IF roster \in AliasRosters THEN AliasPreReqs
    ELSE IF Len(roster) = MaxCourses THEN FlatPreReqs
    ELSE NestedPreReqs

\* The course lists of the examples of the design, section 8.
SpecExamples ==
    { << Course(CourseInfo(CS, 1), PreReq(AND, <<>>)),
         Course(CourseInfo(CS, 2), PreReq(AND, <<CourseInfo(CS, 1)>>)) >>,
      << Course(CourseInfo(CS, 1), PreReq(OR, <<CourseInfo(CS, 2)>>)),
         Course(CourseInfo(CS, 2), PreReq(OR, <<CourseInfo(CS, 1)>>)) >>,
      << Course(CourseInfo(CS, 1), PreReq(AND, <<CourseInfo(CS, 2), CourseInfo(CS, 3)>>)),
         Course(CourseInfo(CS, 2), PreReq(AND, <<>>)),
         Course(CourseInfo(CS, 3), PreReq(OR, <<CourseInfo(CS, 2)>>)) >> }

-----------------------------------------------------------------------------
(* The top-level script and determineMajorPlan.                            *)

NoPlan == [kind |-> "none", list |-> <<>>]
NoUID == [a |-> CourseInfo(<<>>, 0), b |-> CourseInfo(<<>>, 0),
          keyA |-> <<>>, keyB |-> <<>>, done |-> FALSE]
NoEval == [preReq |-> PreReq(AND, <<>>), taken |-> {}, result |-> "none"]

InitScript ==
    /\ pc = "start"
    /\ input = <<>>
    /\ coursesAmount = 0
    /\ courses = <<>>
    /\ takenCoursesMap = <<>>
    /\ solutionIsPossible = TRUE
    /\ plan = NoPlan
    /\ posted = <<>>
    /\ log = <<>>
    /\ roundOf = <<>>
    /\ rounds = 0

scriptVars == <<pc, input, coursesAmount, courses, takenCoursesMap, solutionIsPossible,
                plan, posted, log, roundOf, rounds>>

Init == InitScript /\ uid = NoUID /\ ev = NoEval

\* JSON.parse(await get(COURSES_URL)).courses: the response is one of responses.
Get(responses) ==
    /\ pc = "start"
    /\ \E r \in responses : input' = r
    /\ pc' = "fetched"
    /\ log' = Append(log, "get")
    /\ UNCHANGED <<coursesAmount, courses, takenCoursesMap, solutionIsPossible,
                   plan, posted, roundOf, rounds, uid, ev>>

\* Entry of determineMajorPlan(courses).
Call ==
    /\ pc = "fetched"
    /\ pc' = "loop"
    /\ coursesAmount' = Len(input)
    /\ courses' = [i \in 1..Len(input) |-> i]
    /\ takenCoursesMap' = <<>>
    /\ solutionIsPossible' = TRUE
    /\ roundOf' = [i \in 1..Len(input) |-> 0]
    /\ rounds' = 0
    /\ log' = Append(log, "resolve")
    /\ UNCHANGED <<input, plan, posted, uid, ev>>

LoopCondition ==
    ~areAllCoursesTaken(takenCoursesMap, coursesAmount) /\ solutionIsPossible

\* One body of the while loop that runs to its end.
Round ==
    /\ pc = "loop"
    /\ LoopCondition
    /\ ~RoundResult.threw
    /\ takenCoursesMap' = RoundResult.map
    /\ solutionIsPossible' = StillPossible(RoundResult.remaining, courses)
    /\ courses' = RoundResult.remaining
    /\ rounds' = rounds + 1
    /\ roundOf' = [i \in 1..Len(roundOf) |->
                     IF \E j \in 1..Len(RoundResult.promoted) : RoundResult.promoted[j] = i
                     THEN rounds + 1 ELSE roundOf[i]]
    /\ UNCHANGED <<pc, input, coursesAmount, plan, posted, log, uid, ev>>

\* One body of the while loop that the Error of isPreReqSatisfied leaves; nothing
\* catches it, so it ends the script.
RoundThrows ==
    /\ pc = "loop"
    /\ LoopCondition
    /\ RoundResult.threw
    /\ takenCoursesMap' = RoundResult.map
    /\ rounds' = rounds + 1
    /\ roundOf' = [i \in 1..Len(roundOf) |->
                     IF \E j \in 1..Len(RoundResult.promoted) : RoundResult.promoted[j] = i
                     THEN rounds + 1 ELSE roundOf[i]]
    /\ pc' = "crashed"
    /\ log' = Append(log, "throw")
    /\ UNCHANGED <<input, coursesAmount, courses, solutionIsPossible, plan, posted, uid, ev>>

\* return [...takenCoursesMap.values()]
ReturnPlan ==
    /\ pc = "loop"
    /\ ~LoopCondition
    /\ solutionIsPossible
    /\ plan' = [kind |-> "plan", list |-> MapValues(takenCoursesMap)]
    /\ pc' = "returned"
    /\ log' = Append(log, "return")
    /\ UNCHANGED <<input, coursesAmount, courses, takenCoursesMap, solutionIsPossible,
                   posted, roundOf, rounds, uid, ev>>

\* return null
ReturnNull ==
    /\ pc = "loop"
    /\ ~LoopCondition
    /\ ~solutionIsPossible
    /\ plan' = [kind |-> "null", list |-> <<>>]
    /\ pc' = "returned"
    /\ log' = Append(log, "return")
    /\ UNCHANGED <<input, coursesAmount, courses, takenCoursesMap, solutionIsPossible,
                   posted, roundOf, rounds, uid, ev>>

\* JSON.stringify({ plan: plan }), kept as the value it serialises.
PlanBody(list) == [kind |-> "json", value |-> [plan |-> [i \in 1..Len(list) |-> input[list[i]]]]]
\* A faulty NoSolutionBody: the text wrapped as JSON.
NoSolutionBodyJSON == [kind |-> "json", value |-> "no solution"]

NoSolutionBody == [kind |-> "text", value |-> "no solution"]

\* await post(COURSES_URL, JSON.stringify({ plan: plan }))
PostPlan ==
    /\ pc = "returned"
    /\ plan.kind = "plan"
    /\ posted' = Append(posted, PlanBody(plan.list))
    /\ pc' = "done"
    /\ log' = Append(log, "post")
    /\ UNCHANGED <<input, coursesAmount, courses, takenCoursesMap, solutionIsPossible,
                   plan, roundOf, rounds, uid, ev>>

\* await post(COURSES_URL, "no solution")
PostNoSolution ==
    /\ pc = "returned"
    /\ plan.kind = "null"
    /\ posted' = Append(posted, NoSolutionBody)
    /\ pc' = "done"
    /\ log' = Append(log, "post")
    /\ UNCHANGED <<input, coursesAmount, courses, takenCoursesMap, solutionIsPossible,
                   plan, roundOf, rounds, uid, ev>>

RECURSIVE Received(_, _, _, _)
\* The response is a list with the infos of roster whose prerequisites, from
\* position Len(list) + 1 on, have at most w values below their roots in all.
Received(roster, preReqs, w, list) ==
    IF Len(list) = Len(roster) THEN input' = list
    ELSE \E a \in 0..w : \E p \in preReqs[a] :
            Received(roster, preReqs, w - a,
                     Append(list, Course(roster[Len(list) + 1], p)))

\* The GET answers with a list of the catalogue.
GetCatalogue ==
    /\ pc = "start"
    /\ \E roster \in Rosters : Received(roster, PreReqsFor(roster), MaxWeight, <<>>)
    /\ pc' = "fetched"
    /\ log' = Append(log, "get")
    /\ UNCHANGED <<coursesAmount, courses, takenCoursesMap, solutionIsPossible,
                   plan, posted, roundOf, rounds, uid, ev>>

\* The GET answers with a list of the examples.
GetExample == Get(SpecExamples)

Next ==
    \/ GetCatalogue
    \/ GetExample
    \/ Call
    \/ Round
    \/ RoundThrows
    \/ ReturnPlan
    \/ ReturnNull
    \/ PostPlan
    \/ PostNoSolution

Spec == Init /\ [][Next]_vars

-----------------------------------------------------------------------------
(* isPreReqSatisfied on its own: every tree of at most MaxEvalWeight       *)
(* values below its root, over the three tags, against every set of taken *)
(* keys, followed by the script run on the list of the one course CS 1    *)
(* that has this tree.                                                     *)

EvalTrees(w) == Roots(Tags, AliasInfos, w)
EvalKeys == {getCourseUID(i) : i \in AliasInfos}

InitEval ==
    /\ InitScript
    /\ uid = NoUID
    /\ \E w \in 0..MaxEvalWeight :
          ev \in [preReq : EvalTrees(w), taken : SUBSET EvalKeys, result : {"none"}]

Evaluate ==
    /\ ev.result = "none"
    /\ ev' = [ev EXCEPT !.result = isPreReqSatisfied(ev.preReq, ev.taken)]
    /\ UNCHANGED <<scriptVars, uid>>

GetSingle ==
    /\ ev.result # "none"
    /\ Get({<<Course(CourseInfo(CS, 1), ev.preReq)>>})

NextEval ==
    \/ Evaluate
    \/ GetSingle
    \/ Call
    \/ Round
    \/ RoundThrows
    \/ ReturnPlan
    \/ ReturnNull
    \/ PostPlan
    \/ PostNoSolution

SpecEval == InitEval /\ [][NextEval]_vars

-----------------------------------------------------------------------------
(* getCourseUID on its own: every pair of infos over two subjects and the  *)
(* classIds 0..MaxClassId.                                                 *)

UIDInfos == {CourseInfo(s, c) : s \in {CS, CS1}, c \in 0..MaxClassId}

InitUID ==
    /\ InitScript
    /\ ev = NoEval
    /\ uid \in [a : UIDInfos, b : UIDInfos, keyA : {<<>>}, keyB : {<<>>}, done : {FALSE}]

ApplyUID ==
    /\ ~uid.done
    /\ uid' = [uid EXCEPT !.keyA = getCourseUID(uid.a),
                           !.keyB = getCourseUID(uid.b),
                           !.done = TRUE]
    /\ UNCHANGED <<scriptVars, ev>>

NextUID == ApplyUID

SpecUID == InitUID /\ [][NextUID]_vars

-----------------------------------------------------------------------------
(* Reference notions the properties are stated with.                       *)

RECURSIVE Reference(_, _)
\* The boolean value of a prerequisite value against a set of taken keys: a leaf
\* is its key's membership, an "and" is a conjunction, an "or" a disjunction;
\* a node with any other tag is satisfied by nothing.
Reference(v, takenKeys) ==
    IF isCourseInfo(v) THEN getCourseUID(v) \in takenKeys
    ELSE IF v.type = AND
         THEN \A i \in DOMAIN v.values : Reference(v.values[i], takenKeys)
    ELSE IF v.type = OR
         THEN \E i \in DOMAIN v.values : Reference(v.values[i], takenKeys)
    ELSE FALSE

BoolString(b) == IF b THEN "true" ELSE "false"

RECURSIVE WellTyped(_)
\* Every node of the tree carries a tag of PreReqType.
WellTyped(v) ==
    \/ isCourseInfo(v)
    \/ /\ v.type \in PreReqType
       /\ \A i \in DOMAIN v.values : WellTyped(v.values[i])

RECURSIVE LeavesOf(_)
\* The leaves of a prerequisite value.
LeavesOf(v) ==
    IF isCourseInfo(v) THEN {v}
    ELSE UNION {LeavesOf(v.values[i]) : i \in DOMAIN v.values}

RECURSIVE AndLeavesOf(_)
\* The leaves below "and" nodes only.
AndLeavesOf(v) ==
    IF isCourseInfo(v) THEN {v}
    ELSE IF v.type = AND THEN UNION {AndLeavesOf(v.values[i]) : i \in DOMAIN v.values}
    ELSE {}

Indices == 1..Len(input)
UIDOf(i) == getCourseUID(input[i])
InfoOf(i) == CourseInfo(input[i].subject, input[i].classId)
ListKeys == {UIDOf(i) : i \in Indices}
LeafKeys(i) == {getCourseUID(l) : l \in LeavesOf(input[i].prereqs)}

WellTypedInput == \A i \in Indices : WellTyped(input[i].prereqs)

\* No two entries of the list have the same UID.
DistinctKeys == \A i, j \in Indices : i # j => UIDOf(i) # UIDOf(j)

\* Every leaf names (by subject and classId) a course of the list.
Resolvable ==
    \A i \in Indices : \A l \in LeavesOf(input[i].prereqs) : \E j \in Indices : InfoOf(j) = l

\* Course i has a leaf naming course j; below "and" nodes only when andOnly.
Edge(i, j, andOnly) ==
    InfoOf(j) \in (IF andOnly THEN AndLeavesOf(input[i].prereqs)
                              ELSE LeavesOf(input[i].prereqs))

RECURSIVE Grow(_, _, _)
Grow(S, andOnly, k) ==
    IF k = 0 THEN S
    ELSE Grow(S \cup {j \in Indices : \E i \in S : Edge(i, j, andOnly)}, andOnly, k - 1)

\* The courses course i references directly or transitively.
Reach(i, andOnly) == Grow({j \in Indices : Edge(i, j, andOnly)}, andOnly, Len(input))

Acyclic == \A i \in Indices : i \notin Reach(i, FALSE)

\* The prerequisite of course i is true once all its leaves are taken.
AllTrue(i) == Reference(input[i].prereqs, LeafKeys(i))

Returned == pc \in {"returned", "done"}

\* determineMajorPlan has returned or thrown.
Finished == Returned \/ pc = "crashed"

EachOnce ==
    /\ Len(plan.list) = Len(input)
    /\ \A i \in Indices : \E p \in 1..Len(plan.list) : plan.list[p] = i

Pos(i) == CHOOSE p \in 1..Len(plan.list) : plan.list[p] = i

-----------------------------------------------------------------------------
(* C1                                                                      *)

\* C1 as claimed: for a list without prerequisite cycle whose leaves all name
\* courses of the list, determineMajorPlan returns a Plan holding every input
\* course exactly once, in which every course referenced directly or
\* transitively, through "and" and "or" nodes alike, comes before the
\* referencing course.
C1_Original ==
    (Finished /\ WellTypedInput /\ Acyclic /\ Resolvable) =>
        /\ pc # "crashed"
        /\ Returned =>
             /\ plan.kind = "plan"
             /\ EachOnce
             /\ \A i \in Indices : \A j \in Reach(i, FALSE) : Pos(j) < Pos(i)

\* C1 as amended: for such a list determineMajorPlan never throws; it returns a
\* Plan exactly when no two entries share a UID and every prerequisite is true
\* once all its leaves are taken, and null otherwise; a returned Plan holds every
\* input course exactly once, and every course referenced directly or
\* transitively below "and" nodes only comes before the referencing course.
C1_PlanForAcyclic ==
    (Finished /\ WellTypedInput /\ Acyclic /\ Resolvable) =>
        /\ pc # "crashed"
        /\ Returned =>
             /\ plan.kind \in {"plan", "null"}
             /\ plan.kind = "plan" <=> (DistinctKeys /\ \A i \in Indices : AllTrue(i))
             /\ plan.kind = "plan" =>
                  /\ EachOnce
                  /\ \A i \in Indices : \A j \in Reach(i, TRUE) : Pos(j) < Pos(i)

\* A three-course chain through a nested-free "and" was planned: CS 3 needs CS 2
\* needs CS 1, given in the reverse order.
C1_Witness ==
    /\ pc = "done"
    /\ Len(input) = 3
    /\ WellTypedInput /\ Acyclic /\ Resolvable
    /\ Reach(1, TRUE) = {2, 3}
    /\ plan = [kind |-> "plan", list |-> <<3, 2, 1>>]

-----------------------------------------------------------------------------
(* C2                                                                      *)

\* The courses promoted by round r.
PromotedIn(r) == {i \in Indices : roundOf[i] = r}

\* Course i cannot be satisfied while course j is not taken.
Requires(i, j) ==
    ~Reference(input[i].prereqs, (ListKeys \cup LeafKeys(i)) \ {UIDOf(j)})

TwoCycle == \E i, j \in Indices : i # j /\ Requires(i, j) /\ Requires(j, i)

\* Course i can be satisfied only through a leaf whose key no course of the list has.
NeedsAbsent(i) ==
    /\ ~Reference(input[i].prereqs, ListKeys)
    /\ Reference(input[i].prereqs, ListKeys \cup LeafKeys(i))

\* C2: a round that promotes no course while a course remains is the last one
\* and the run returns null (no throw, no Plan); so do two courses that require
\* each other and a course that can only be satisfied through an absent leaf.
C2_NoProgressIsNoSolution ==
    /\ \A r \in 1..rounds :
          (PromotedIn(r) = {} /\ ~(r = rounds /\ pc = "crashed")) =>
              /\ r = rounds
              /\ courses # <<>> =>
                   /\ pc \in {"loop", "returned", "done"}
                   /\ ~solutionIsPossible
                   /\ Returned => plan = [kind |-> "null", list |-> <<>>]
    /\ (Finished /\ WellTypedInput /\ (TwoCycle \/ \E i \in Indices : NeedsAbsent(i))) =>
          /\ pc # "crashed"
          /\ Returned => plan = [kind |-> "null", list |-> <<>>]

\* The second round promoted nothing with a two-cycle left over, and null was
\* returned.
C2_Witness ==
    /\ pc = "done"
    /\ rounds = 2
    /\ PromotedIn(1) = {1}
    /\ PromotedIn(2) = {}
    /\ Len(courses) = 2
    /\ TwoCycle
    /\ plan.kind = "null"

-----------------------------------------------------------------------------
(* C3                                                                      *)

\* C3: for every tree of "and"/"or" nodes and leaves and every set of taken
\* keys, isPreReqSatisfied returns the reference boolean (leaf: its key is
\* taken; and: every child, empty is true; or: some child, empty is false); and
\* the one-course list with an empty "and" is planned in round 1, with an empty
\* "or" it gives null.
C3_EvaluatorIsReference ==
    /\ (ev.result # "none" /\ WellTyped(ev.preReq))
          => ev.result = BoolString(Reference(ev.preReq, ev.taken))
    /\ (pc \in {"returned", "done"} /\ ev.preReq = PreReq(AND, <<>>))
          => (plan = [kind |-> "plan", list |-> <<1>>] /\ roundOf = <<1>>)
    /\ (pc \in {"returned", "done"} /\ ev.preReq = PreReq(OR, <<>>))
          => plan.kind = "null"
    /\ (pc = "crashed") => ~WellTyped(ev.preReq)

\* A nested tree whose value differs between its children was evaluated, and the
\* two one-course runs have returned.
C3_Witness ==
    /\ ev.result = "true"
    /\ ev.taken = {getCourseUID(CourseInfo(CS, 11))}
    /\ ev.preReq = PreReq(AND, <<PreReq(OR, <<CourseInfo(CS, 1), CourseInfo(CS1, 1)>>)>>)
    /\ pc = "done"

-----------------------------------------------------------------------------
(* C6                                                                      *)

\* C6: getCourseUID gives two infos the same key iff they have the same subject
\* and the same classId.
C6_UIDIsInjective ==
    uid.done =>
        ((uid.keyA = uid.keyB) <=>
         (uid.a.subject = uid.b.subject /\ uid.a.classId = uid.b.classId))

-----------------------------------------------------------------------------
(* C4                                                                      *)

\* C4: a run on a list in which some prerequisite node, at any depth and any
\* position, has a tag that is neither "and" nor "or" ends in the thrown Error
\* and never returns a Plan or null.
C4_MalformedAlwaysThrows ==
    (pc \in {"returned", "done", "crashed"} /\ ~WellTypedInput) => pc = "crashed"

-----------------------------------------------------------------------------
(* C5                                                                      *)

Count(s, e) == Cardinality({i \in 1..Len(s) : s[i] = e})

\* One get, then one resolve, then (once resolve has returned) one post.
OrderedEvents ==
    /\ Count(log, "get") <= 1 /\ Count(log, "resolve") <= 1
    /\ Count(log, "return") <= 1 /\ Count(log, "post") <= 1
    /\ Len(posted) = Count(log, "post")
    /\ \A i \in 1..Len(log) :
          /\ log[i] = "resolve" => (i > 1 /\ log[i - 1] = "get")
          /\ log[i] = "post" => (i > 2 /\ log[i - 1] = "return" /\ log[i - 2] = "resolve")

\* The body posted is the value {plan: <the Plan's courses in order>} for a Plan
\* and the bare text for null.
PayloadMatches ==
    pc = "done" =>
        /\ Len(posted) = 1
        /\ plan.kind = "plan" =>
              posted[1] = [kind |-> "json",
                           value |-> [plan |-> [i \in 1..Len(plan.list) |-> input[plan.list[i]]]]]
        /\ plan.kind = "null" => posted[1] = [kind |-> "text", value |-> "no solution"]
        /\ plan.kind \in {"plan", "null"}

\* The script has stopped: no GET, call, round, return or post is left to do.
Ended ==
    /\ pc \notin {"start", "fetched", "loop"}
    /\ ~(pc = "returned" /\ plan.kind \in {"plan", "null"})

-----------------------------------------------------------------------------
(* C7                                                                      *)

\* C7: once the list of remaining courses is empty, determineMajorPlan returns
\* as Plan the courses in the order of their insertion into the taken map, one
\* entry per input course; the empty list and lists with a repeated key included.
C7_EmptyRemainingSucceeds ==
    (Returned /\ courses = <<>>) =>
        /\ plan = [kind |-> "plan", list |-> MapValues(takenCoursesMap)]
        /\ Len(plan.list) = Len(input)

-----------------------------------------------------------------------------
(* C8                                                                      *)

\* The rounds that ran to their end.
CompletedRounds == IF pc = "crashed" THEN rounds - 1 ELSE rounds

\* The keys taken when round r reaches course i: those of the rounds before r,
\* and those of round r promoted from earlier positions of the input.
KeysSeenBy(i, r) ==
    {UIDOf(j) : j \in {k \in Indices :
        \/ 0 < roundOf[k] /\ roundOf[k] < r
        \/ roundOf[k] = r /\ k < i}}

\* a comes before b by round of promotion, then by input position.
PromotedBefore(a, b) ==
    \/ roundOf[a] < roundOf[b]
    \/ roundOf[a] = roundOf[b] /\ a < b

\* [CS1 and(CS2, CS3), CS2 and(), CS3 or(CS2)]
ExampleInput ==
    << Course(CourseInfo(CS, 1), PreReq(AND, <<CourseInfo(CS, 2), CourseInfo(CS, 3)>>)),
       Course(CourseInfo(CS, 2), PreReq(AND, <<>>)),
       Course(CourseInfo(CS, 3), PreReq(OR, <<CourseInfo(CS, 2)>>)) >>

\* C8: in every round each remaining course is evaluated, in input order,
\* against the keys taken at that moment, its own round's earlier promotions
\* included: it is promoted in the round iff its prerequisite is true of them;
\* a returned Plan is ordered by round of promotion and then by input position;
\* and the example list gives [CS2, CS3, CS1].
C8_RoundOrder ==
    /\ \A r \in 1..CompletedRounds : \A i \in Indices :
          /\ roundOf[i] = r => Reference(input[i].prereqs, KeysSeenBy(i, r))
          /\ (roundOf[i] = 0 \/ roundOf[i] > r)
                => ~Reference(input[i].prereqs, KeysSeenBy(i, r))
    /\ (Returned /\ plan.kind = "plan") =>
          /\ \A i \in Indices : roundOf[i] > 0
          /\ \A p, q \in 1..Len(plan.list) :
                p < q => PromotedBefore(plan.list[p], plan.list[q])
    /\ (Returned /\ input = ExampleInput) =>
          (plan = [kind |-> "plan", list |-> <<2, 3, 1>>] /\ roundOf = <<2, 1, 1>>)

\* The example list was planned: CS3 was promoted in round 1 by CS2 of the same
\* round.
C8_Witness ==
    /\ pc = "done"
    /\ input = ExampleInput
    /\ plan.list = <<2, 3, 1>>
    /\ roundOf[3] = 1 /\ roundOf[2] = 1
    /\ ~Reference(input[3].prereqs, {})

-----------------------------------------------------------------------------
(* C9                                                                      *)

\* C9: the loop of determineMajorPlan runs at most |courses| rounds, |courses|
\* the length of the input list.
C9_AtMostLenRounds ==
    pc \in {"loop", "returned", "done", "crashed"} => rounds <= Len(input)

-----------------------------------------------------------------------------
(* C10                                                                     *)

\* The keys of the courses before position p of the Plan.
KeysBefore(p) == {UIDOf(plan.list[q]) : q \in 1..(p - 1)}

\* C10: in a returned Plan every course's own prerequisite is true of the
\* courses at strictly earlier positions.
C10_PlanIsSound ==
    (Returned /\ plan.kind = "plan") =>
        \A p \in 1..Len(plan.list) :
            Reference(input[plan.list[p]].prereqs, KeysBefore(p))

\* A Plan was returned for a course whose nested prerequisite had to wait for
\* an earlier round.
C10_Witness ==
    /\ pc = "done"
    /\ plan = [kind |-> "plan", list |-> <<2, 1>>]
    /\ input[1].prereqs = PreReq(AND, <<PreReq(OR, <<InfoOf(2)>>)>>)
    /\ roundOf = <<2, 1>>

====
